---- MODULE Spec2Model ----
(***************************************************************************)
(* A model of src/index.ts: the /best-move route of the chess analysis     *)
(* service.  A request passes the payment middleware, the router, the      *)
(* query validator and the handler, which issues one fetch to the upstream *)
(* analysis API and translates its outcome into a JSON response.           *)
(*                                                                         *)
(* Text that the code builds character by character (the upstream URL) is  *)
(* a sequence of one-character strings; messages are strings.              *)
(***************************************************************************)
EXTENDS Integers, Sequences, FiniteSets, TLC

VARIABLES
  pc,        \* pc[r]: where request r is in the middleware chain
  req,       \* req[r]: the incoming request (method, path, paid, query)
  verified,  \* verified[r]: the payment middleware accepted payment for r
  valid,     \* valid[r]: c.req.valid('query'), set by zValidator
  ran,       \* ran[r]: the /best-move handler has been entered for r
  steps,     \* steps[r]: what the handler did for r: "fetch", "json", "parse"
  url,       \* url[r]: the URL of the fetch issued for r
  upstream,  \* upstream[r]: how that fetch settled
  resp       \* resp[r]: the responses sent for r, in order

vars == <<pc, req, verified, valid, ran, steps, url, upstream, resp>>

----------------------------------------------------------------------------
(* Bounds of the model. *)

NumRequests == 2
MaxLen == 2

Requests == 1..NumRequests

----------------------------------------------------------------------------
(* Strings of query parameters. *)

Chars == {"a", "/", " ", "&"}

RECURSIVE StringsUpTo(_)
StringsUpTo(n) ==
  IF n = 0 THEN {<<>>}
  ELSE LET S == StringsUpTo(n - 1)
       IN  S \cup {Append(s, c) : s \in {t \in S : Len(t) = n - 1}, c \in Chars}

\* A depth value that carries a second fen parameter: "1&fen=a".
InjectedDepth == <<"1", "&", "f", "e", "n", "=", "a">>

\* A query: a function from the names of the parameters present to their values.
QueryOf(F, D) ==
  { [k \in {"fen", "depth"} |-> IF k = "fen" THEN f ELSE d] : f \in F, d \in D }
    \cup { [k \in {"fen"} |-> f] : f \in F }
    \cup { [k \in {"depth"} |-> d] : d \in D }
    \cup { [k \in {} |-> <<>>] }

NoQuery == [k \in {} |-> <<>>]

----------------------------------------------------------------------------
(* encodeURIComponent (line 82), on the characters the model uses. *)

Unreserved ==
  {"a", "b", "c", "d", "e", "f", "n", "0", "1", "2", "3", "4", "5", "6", "7",
   "8", "9", "-", "_", ".", "!", "~", "*", "'", "(", ")"}

\* The code unit of a character outside Unreserved (ASCII).
CharCode(c) ==
  CASE c = " " -> 32
    [] c = "#" -> 35
    [] c = "%" -> 37
    [] c = "&" -> 38
    [] c = "+" -> 43
    [] c = "/" -> 47
    [] c = "=" -> 61
    [] c = "?" -> 63

HexDigits == <<"0", "1", "2", "3", "4", "5", "6", "7", "8", "9",
               "A", "B", "C", "D", "E", "F">>

EncodeChar(c) ==
  IF c \in Unreserved THEN <<c>>
  ELSE <<"%", HexDigits[(CharCode(c) \div 16) + 1], HexDigits[(CharCode(c) % 16) + 1]>>

RECURSIVE encodeURIComponent(_)
encodeURIComponent(s) ==
  IF s = <<>> THEN <<>>
  ELSE EncodeChar(Head(s)) \o encodeURIComponent(Tail(s))

\* The template literal of line 82.
Endpoint ==
  <<"h", "t", "t", "p", "s", ":", "/", "/", "s", "t", "o", "c", "k", "f", "i",
    "s", "h", ".", "o", "n", "l", "i", "n", "e", "/", "a", "p", "i", "/", "s",
    "/", "v", "2", ".", "p", "h", "p">>

\* The URL with fen put in as it is.
BuildUrlUnencoded(fen, depth) ==
  Endpoint \o <<"?", "f", "e", "n", "=">> \o fen
           \o <<"&", "d", "e", "p", "t", "h", "=">> \o depth

BuildUrl(fen, depth) ==
  Endpoint \o <<"?", "f", "e", "n", "=">> \o encodeURIComponent(fen)
           \o <<"&", "d", "e", "p", "t", "h", "=">> \o depth

----------------------------------------------------------------------------
(* JSON values.  A scalar is <<type, text>>; an object is a function from   *)
(* the keys present to values; parsed data is [type, fields].              *)

True == <<"boolean", "true">>
False == <<"boolean", "false">>
Null == <<"null", "null">>
Num(t) == <<"number", t>>
Str(t) == <<"string", t>>
Absent == <<"absent", "">>

TypeOf(v) == v[1]

\* The object with the given values, the Absent ones left out.
Object(s, e, b, m, er, c) ==
  LET all == [k \in {"success", "evaluation", "bestmove", "mate", "error", "continuation"} |->
                CASE k = "success" -> s
                  [] k = "evaluation" -> e
                  [] k = "bestmove" -> b
                  [] k = "mate" -> m
                  [] k = "error" -> er
                  [] k = "continuation" -> c]
  IN  [k \in {x \in DOMAIN all : all[x] # Absent} |-> all[k]]

JsonObject(f) == [type |-> "object", fields |-> f]
JsonOther(t) == [type |-> t, fields |-> [k \in {} |-> Absent]]

----------------------------------------------------------------------------
(* responseSchema (lines 26-37): z.discriminatedUnion('success', ...).     *)

\* The success variant with evaluation of any type.
SuccessShapeAnyEvaluation ==
  << [key |-> "success", types |-> {"boolean"}],
     [key |-> "evaluation", types |-> {"number", "string", "boolean", "null"}],
     [key |-> "bestmove", types |-> {"string"}],
     [key |-> "mate", types |-> {"number", "null"}] >>

SuccessShape ==
  << [key |-> "success", types |-> {"boolean"}],
     [key |-> "evaluation", types |-> {"number"}],
     [key |-> "bestmove", types |-> {"string"}],
     [key |-> "mate", types |-> {"number", "null"}] >>

FailureShape ==
  << [key |-> "success", types |-> {"boolean"}],
     [key |-> "error", types |-> {"string"}] >>

Issue(code, path) == [code |-> code, path |-> path]

\* The issues of an object against the fields of one variant, in field order.
RECURSIVE FieldIssues(_, _)
FieldIssues(f, shape) ==
  IF shape = <<>> THEN <<>>
  ELSE LET fld == Head(shape)
           bad == \/ fld.key \notin DOMAIN f
                  \/ TypeOf(f[fld.key]) \notin fld.types
       IN  (IF bad THEN <<Issue("invalid_type", <<fld.key>>)>> ELSE <<>>)
             \o FieldIssues(f, Tail(shape))

ShapeKeys(shape) == {shape[i].key : i \in 1..Len(shape)}

\* An object schema that keeps the keys it does not name.
StripNothing(f, shape) == f

\* z.object strips the keys its shape does not name.
Strip(f, shape) == [k \in DOMAIN f \cap ShapeKeys(shape) |-> f[k]]

ParseOk(f) == [success |-> TRUE, data |-> f, issues |-> <<>>]
ParseFail(issues) == [success |-> FALSE, data |-> [k \in {} |-> Absent], issues |-> issues]

responseSchema(data) ==
  IF data.type # "object" THEN ParseFail(<<Issue("invalid_type", <<>>)>>)
  ELSE LET f == data.fields
       IN  IF "success" \notin DOMAIN f \/ f["success"] \notin {True, False}
           THEN ParseFail(<<Issue("invalid_union_discriminator", <<"success">>)>>)
           ELSE LET shape == IF f["success"] = True THEN SuccessShape ELSE FailureShape
                    issues == FieldIssues(f, shape)
                IN  IF issues = <<>> THEN ParseOk(Strip(f, shape)) ELSE ParseFail(issues)

----------------------------------------------------------------------------
(* Errors and responses. *)

\* A thrown value: an Error (with its message) or something else.
Thrown(name, isError, message, issues) ==
  [name |-> name, isError |-> isError, message |-> message, issues |-> issues]

ZodError(issues) == Thrown("ZodError", TRUE, "validation failed", issues)

\* c.json(body, status)
Json(body, status) == [status |-> status, type |-> "json", body |-> body]
\* A response that is not JSON (the landing page, the router's 404).
Plain(type, status) == [status |-> status, type |-> type, body |-> [k \in {} |-> Absent]]

\* The message of whatever was thrown.
ErrorMessageOfAny(error) == error.message

\* Line 116.
ErrorMessage(error) ==
  IF error.isError THEN error.message ELSE "Unknown error occurred"

\* The message without the status text.
UpstreamErrorMessageNoText(status, statusText) ==
  "Stockfish API returned " \o ToString(status)

\* Line 91.
UpstreamErrorMessage(status, statusText) ==
  "Stockfish API returned " \o ToString(status) \o ": " \o statusText

\* The catch block, lines 102-118.
Catch(error) ==
  IF error.name = "ZodError"
  THEN Json([k \in {"success", "error", "details"} |->
               CASE k = "success" -> False
                 [] k = "error" -> Str("Invalid response format from Stockfish API")
                 [] k = "details" -> <<"array", error.issues>>], 500)
  ELSE Json([k \in {"success", "error"} |->
               IF k = "success" THEN False ELSE Str(ErrorMessage(error))], 500)

\* response.ok
Ok(status) == status \in 200..299

\* A fetch that is issued again.
IssueFetchTwice(done) == done \o <<"fetch", "fetch">>

\* fetch(url) is one outbound call.
IssueFetch(done) == Append(done, "fetch")

\* The handler from the point where fetch settles (lines 85-118): the response
\* it gives and the steps it took on the upstream body.
HandlerResume(o) ==
  IF o.kind = "reject" THEN [resp |-> Catch(o.error), steps |-> <<>>]
  ELSE IF ~Ok(o.status)
  THEN [resp |-> Json([k \in {"success", "error"} |->
                         IF k = "success" THEN False
                         ELSE Str(UpstreamErrorMessage(o.status, o.statusText))], 500),
        steps |-> <<>>]
  ELSE IF o.body.kind = "malformed"
  THEN [resp |-> Catch(Thrown("SyntaxError", TRUE, o.body.message, <<>>)),
        steps |-> <<"json">>]
  ELSE LET res == responseSchema(o.body.data)
       IN  [resp |-> IF res.success THEN Json(res.data, 200) ELSE Catch(ZodError(res.issues)),
            steps |-> <<"json", "parse">>]

----------------------------------------------------------------------------
(* The request validator, zValidator('query', ...) of lines 70-76. *)

DefaultDepth == <<"1", "0">>

\* A query schema whose fen is optional.
QuerySchemaFenOptional(q) ==
  [success |-> TRUE,
   data |-> [k \in {"fen", "depth"} |->
               IF k \in DOMAIN q THEN q[k] ELSE IF k = "fen" THEN <<>> ELSE DefaultDepth],
   issues |-> <<>>]

QuerySchema(q) ==
  IF "fen" \notin DOMAIN q
  THEN [success |-> FALSE, data |-> NoQuery, issues |-> <<Issue("invalid_type", <<"fen">>)>>]
  ELSE [success |-> TRUE,
        data |-> [k \in {"fen", "depth"} |->
                    IF k = "fen" THEN q["fen"]
                    ELSE IF "depth" \in DOMAIN q THEN q["depth"] ELSE DefaultDepth],
        issues |-> <<>>]

----------------------------------------------------------------------------
(* What the upstream API, or the network, can answer to a fetch. *)

BodyJson(data) == [kind |-> "json", data |-> data, message |-> ""]
BodyMalformed(message) == [kind |-> "malformed", data |-> JsonOther("null"), message |-> message]

Response(st, body) ==
  [kind |-> "response", status |-> st.status, statusText |-> st.text, body |-> body,
   error |-> Thrown("none", FALSE, "", <<>>)]
Rejected(error) ==
  [kind |-> "reject", status |-> 0, statusText |-> "", body |-> BodyMalformed(""),
   error |-> error]

StatusOK == [status |-> 200, text |-> "OK"]
StatusUnavailable == [status |-> 503, text |-> "Service Unavailable"]
Statuses ==
  {StatusOK, StatusUnavailable,
   [status |-> 201, text |-> "Created"],
   [status |-> 404, text |-> "Not Found"],
   [status |-> 500, text |-> "Internal Server Error"]}

SuccessBody == Object(True, Num("0.5"), Str("e2e4"), Null, Absent, Absent)
FailureBody == Object(False, Absent, Absent, Absent, Str("invalid fen"), Absent)
MistypedBody == Object(True, Str("not-a-number"), Absent, Absent, Absent, Absent)

ObjectBodies ==
  { Object(s, e, b, m, er, c) :
      s \in {Absent, True, False, Str("yes")},
      e \in {Absent, Num("0.5"), Str("not-a-number")},
      b \in {Absent, Str("e2e4"), Num("7")},
      m \in {Absent, Null, Num("3"), Str("none")},
      er \in {Absent, Str("invalid fen"), Num("1")},
      c \in {Absent, Str("e2e4 e7e5")} }

ParseMessages == {"Unexpected token < in JSON at position 0", "Unexpected end of JSON input"}

Bodies ==
  {BodyJson(JsonObject(f)) : f \in ObjectBodies}
    \cup {BodyJson(JsonOther(t)) : t \in {"null", "array", "string", "number", "boolean"}}
    \cup {BodyMalformed(m) : m \in ParseMessages}

NetworkFailure == Rejected(Thrown("TypeError", TRUE, "fetch failed", <<>>))
Failures ==
  {NetworkFailure,
   Rejected(Thrown("AbortError", TRUE, "The operation was aborted", <<>>)),
   Rejected(Thrown("value", FALSE, "", <<>>))}

----------------------------------------------------------------------------
(* The state machine. *)

Init ==
  /\ pc = [r \in Requests |-> "idle"]
  /\ req = [r \in Requests |-> [method |-> "GET", path |-> "/", paid |-> FALSE, query |-> NoQuery]]
  /\ verified = [r \in Requests |-> FALSE]
  /\ valid = [r \in Requests |-> NoQuery]
  /\ ran = [r \in Requests |-> FALSE]
  /\ steps = [r \in Requests |-> <<>>]
  /\ url = [r \in Requests |-> <<>>]
  /\ upstream = [r \in Requests |-> Rejected(Thrown("none", FALSE, "", <<>>))]
  /\ resp = [r \in Requests |-> <<>>]

Methods == {"GET", "POST"}
Paths == {"/best-move", "/"}

\* A request arrives, with one of the queries Q.
Receive(r, Q) ==
  /\ pc[r] = "idle"
  /\ \E m \in Methods, p \in Paths, paid \in BOOLEAN, q \in Q :
       req' = [req EXCEPT ![r] = [method |-> m, path |-> p, paid |-> paid, query |-> q]]
  /\ pc' = [pc EXCEPT ![r] = "gate"]
  /\ UNCHANGED <<verified, valid, ran, steps, url, upstream, resp>>

\* A route table whose key is not the path of the route.
ProtectedRoutesMisspelt == {"/bestmove"}

\* The routes the payment middleware is configured with (lines 46-57).
ProtectedRoutes == {"/best-move"}

\* app.use(paymentMiddleware(...)), lines 43-62: registered without a path, before
\* every route.  A request to a protected route goes on only once its payment is
\* accepted; otherwise it is answered 402 and the chain stops.
PaymentGate(r) ==
  /\ pc[r] = "gate"
  /\ IF req[r].path \in ProtectedRoutes
     THEN IF req[r].paid
          THEN /\ verified' = [verified EXCEPT ![r] = TRUE]
               /\ pc' = [pc EXCEPT ![r] = "route"]
               /\ resp' = resp
          ELSE /\ resp' = [resp EXCEPT ![r] = Append(@,
                    Json([k \in {"error"} |-> Str("Payment required")], 402))]
               /\ pc' = [pc EXCEPT ![r] = "done"]
               /\ verified' = verified
     ELSE /\ pc' = [pc EXCEPT ![r] = "route"]
          /\ UNCHANGED <<verified, resp>>
  /\ UNCHANGED <<req, valid, ran, steps, url, upstream>>

\* The router: app.get("/best-move", ...) of line 69, app.get("/", ...) of line 123,
\* and the framework's 404 for anything else.
Router(r) ==
  /\ pc[r] = "route"
  /\ IF req[r].method = "GET" /\ req[r].path = "/best-move"
     THEN /\ pc' = [pc EXCEPT ![r] = "validator"]
          /\ resp' = resp
     ELSE /\ pc' = [pc EXCEPT ![r] = "done"]
          /\ resp' = [resp EXCEPT ![r] = Append(@,
                IF req[r].method = "GET" /\ req[r].path = "/"
                THEN Plain("html", 200) ELSE Plain("text", 404))]
  /\ UNCHANGED <<req, verified, valid, ran, steps, url, upstream>>

\* zValidator('query', ...), lines 70-76: a query the schema rejects is answered
\* 400 and the handler is not called.
Validator(r) ==
  /\ pc[r] = "validator"
  /\ LET res == QuerySchema(req[r].query)
     IN  IF res.success
         THEN /\ valid' = [valid EXCEPT ![r] = res.data]
              /\ pc' = [pc EXCEPT ![r] = "handler"]
              /\ resp' = resp
         ELSE /\ resp' = [resp EXCEPT ![r] = Append(@,
                   Json([k \in {"success", "error"} |->
                           IF k = "success" THEN False ELSE <<"array", res.issues>>], 400))]
              /\ pc' = [pc EXCEPT ![r] = "done"]
              /\ valid' = valid
  /\ UNCHANGED <<req, verified, ran, steps, url, upstream>>

\* The handler up to its await of fetch (lines 77-85).
HandlerStart(r) ==
  /\ pc[r] = "handler"
  /\ ran' = [ran EXCEPT ![r] = TRUE]
  /\ url' = [url EXCEPT ![r] = BuildUrl(valid[r]["fen"], valid[r]["depth"])]
  /\ steps' = [steps EXCEPT ![r] = IssueFetch(@)]
  /\ pc' = [pc EXCEPT ![r] = "fetching"]
  /\ UNCHANGED <<req, verified, valid, upstream, resp>>

\* fetch settles with one of the outcomes O and the handler runs to its return
\* (lines 85-118).
FetchSettles(r, O) ==
  /\ pc[r] = "fetching"
  /\ \E o \in O :
       /\ upstream' = [upstream EXCEPT ![r] = o]
       /\ LET h == HandlerResume(o)
          IN  /\ steps' = [steps EXCEPT ![r] = @ \o h.steps]
              /\ resp' = [resp EXCEPT ![r] = Append(@, h.resp)]
  /\ pc' = [pc EXCEPT ![r] = "done"]
  /\ UNCHANGED <<req, verified, valid, ran, url>>

NextOn(R, Q, O) ==
  \E r \in R :
    \/ Receive(r, Q)
    \/ PaymentGate(r)
    \/ Router(r)
    \/ Validator(r)
    \/ HandlerStart(r)
    \/ FetchSettles(r, O)

\* Concurrent requests, a few queries and outcomes.
Queries == QueryOf({<<"a">>}, {})
Outcomes ==
  {Response(StatusOK, BodyJson(JsonObject(SuccessBody))),
   Response(StatusOK, BodyJson(JsonObject(FailureBody))),
   Response(StatusOK, BodyJson(JsonObject(MistypedBody))),
   Response(StatusUnavailable, BodyMalformed("")),
   NetworkFailure}
Next == NextOn(Requests, Queries, Outcomes)
Spec == Init /\ [][Next]_vars

\* One request, every query string up to MaxLen.
UrlQueries == QueryOf(StringsUpTo(MaxLen), StringsUpTo(MaxLen) \cup {InjectedDepth})
UrlOutcomes ==
  {Response(StatusOK, BodyJson(JsonObject(SuccessBody))),
   Response(StatusUnavailable, BodyMalformed(""))}
NextUrl == NextOn({1}, UrlQueries, UrlOutcomes)
SpecUrl == Init /\ [][NextUrl]_vars

\* One request, every upstream answer.
BodyOutcomes == {Response(st, b) : st \in Statuses, b \in Bodies} \cup Failures
NextBody == NextOn({1}, Queries, BodyOutcomes)
SpecBody == Init /\ [][NextBody]_vars

Calls(r) == Len(SelectSeq(steps[r], LAMBDA x : x = "fetch"))

----------------------------------------------------------------------------
(* Properties. *)

Done(r) == pc[r] = "done"
ToBestMove(r) == pc[r] # "idle" /\ req[r].path = "/best-move"

\* The fetch of r settled with an HTTP response.
Answered(r) == Done(r) /\ ran[r] /\ upstream[r].kind = "response"
AnsweredOk(r) == Answered(r) /\ upstream[r].status \in 200..299
AnsweredJson(r) == AnsweredOk(r) /\ upstream[r].body.kind = "json"

\* The number of places where p occurs in s.
Occurrences(p, s) ==
  Cardinality({i \in 1..(Len(s) - Len(p) + 1) : SubSeq(s, i, i + Len(p) - 1) = p})

SuccessKeys == {"success", "evaluation", "bestmove", "mate"}
FailureKeys == {"success", "error"}

\* The parsed body d has the fields of one variant of AnalysisResult, with their
\* types (it may have other fields too).
MatchesSuccess(d) ==
  /\ d.type = "object"
  /\ SuccessKeys \subseteq DOMAIN d.fields
  /\ d.fields["success"] = True
  /\ TypeOf(d.fields["evaluation"]) = "number"
  /\ TypeOf(d.fields["bestmove"]) = "string"
  /\ TypeOf(d.fields["mate"]) \in {"number", "null"}
MatchesFailure(d) ==
  /\ d.type = "object"
  /\ FailureKeys \subseteq DOMAIN d.fields
  /\ d.fields["success"] = False
  /\ TypeOf(d.fields["error"]) = "string"
Matches(d) == MatchesSuccess(d) \/ MatchesFailure(d)

\* C1: the /best-move handler runs, and the upstream API is called, only for a
\* request whose payment the gate has accepted; an unpaid request to /best-move
\* is answered 402 by the gate and goes no further.
C1_GateBeforeHandler ==
  \A r \in Requests :
    /\ (ran[r] \/ Calls(r) > 0 \/ pc[r] \in {"validator", "handler", "fetching"})
         => (verified[r] /\ req[r].paid)
    /\ (ToBestMove(r) /\ ~req[r].paid /\ pc[r] # "gate")
         => (Done(r) /\ Len(resp[r]) = 1 /\ resp[r][1].status = 402)

C1_Witness ==
  \E r1, r2 \in Requests :
    /\ ran[r1] /\ verified[r1] /\ Calls(r1) = 1
    /\ ToBestMove(r2) /\ ~req[r2].paid /\ Done(r2)

\* C10: at most one fetch is issued per request, exactly one once the handler has
\* been entered, whatever the other requests do and however the fetch settles.
C10_OneCallPerRequest ==
  \A r \in Requests :
    /\ Calls(r) <= 1
    /\ ran[r] <=> (Calls(r) = 1)
    /\ (Done(r) /\ ran[r]) => Calls(r) = 1

C10_Witness ==
  \E r1, r2 \in Requests :
    /\ r1 # r2
    /\ Done(r1) /\ ran[r1] /\ upstream[r1].kind = "response" /\ upstream[r1].status = 503
    /\ Calls(r1) = 1
    /\ pc[r2] = "fetching" /\ Calls(r2) = 1

\* C6: a request to /best-move without fen never enters the handler and never
\* causes a fetch; it ends with one 4xx response, which is the validator's 400
\* when it is a GET whose payment was accepted.
C6_MissingFenNoCall ==
  \A r \in Requests :
    (ToBestMove(r) /\ "fen" \notin DOMAIN req[r].query) =>
      /\ ~ran[r]
      /\ Calls(r) = 0
      /\ pc[r] \notin {"handler", "fetching"}
      /\ Done(r) =>
           /\ Len(resp[r]) = 1
           /\ resp[r][1].status \in 400..499
           /\ (verified[r] /\ req[r].method = "GET") => resp[r][1].status = 400

C6_Witness ==
  \E r \in Requests :
    /\ ToBestMove(r) /\ "fen" \notin DOMAIN req[r].query
    /\ req[r].method = "GET" /\ verified[r] /\ Done(r)
    /\ resp[r][1].status = 400

\* The one response of a finished request.
Reply(r) == resp[r][1]

\* C2 as claimed: a 2xx upstream body that matches a variant is answered 200 with
\* the upstream body unchanged.
C2_BodyUnchanged ==
  \A r \in Requests :
    (AnsweredJson(r) /\ Matches(upstream[r].body.data)) =>
      /\ Len(resp[r]) = 1
      /\ Reply(r).status = 200
      /\ Reply(r).body = upstream[r].body.data.fields

\* C2, amended: a 2xx upstream body that matches a variant is answered 200, also
\* when it says success:false, and the response body is the upstream body cut
\* down to the fields of that variant, each with its upstream value; so it is the
\* upstream body itself exactly when that has no other field.
C2_PassThroughOfVariantFields ==
  \A r \in Requests :
    (AnsweredJson(r) /\ Matches(upstream[r].body.data)) =>
      LET f == upstream[r].body.data.fields
          keys == IF f["success"] = True THEN SuccessKeys ELSE FailureKeys
      IN  /\ Len(resp[r]) = 1
          /\ Reply(r).status = 200
          /\ Reply(r).type = "json"
          /\ DOMAIN Reply(r).body = keys
          /\ \A k \in keys : Reply(r).body[k] = f[k]
          /\ (DOMAIN f = keys) <=> (Reply(r).body = f)

C2_Witness ==
  \E r \in Requests :
    /\ AnsweredJson(r)
    /\ MatchesFailure(upstream[r].body.data)
    /\ "continuation" \in DOMAIN upstream[r].body.data.fields
    /\ Reply(r).status = 200

\* C3: an upstream answer with a status outside 200..299 is answered 500 with
\* error "Stockfish API returned <status>: <status text>", and the upstream body
\* is neither parsed nor validated.
C3_UpstreamHttpError ==
  \A r \in Requests :
    (Answered(r) /\ upstream[r].status \notin 200..299) =>
      /\ Len(resp[r]) = 1
      /\ Reply(r).status = 500
      /\ Reply(r).type = "json"
      /\ DOMAIN Reply(r).body = {"success", "error"}
      /\ Reply(r).body["success"] = False
      /\ Reply(r).body["error"] =
           Str("Stockfish API returned " \o ToString(upstream[r].status) \o ": "
                 \o upstream[r].statusText)
      /\ upstream[r].status = 503 =>
           Reply(r).body["error"] = Str("Stockfish API returned 503: Service Unavailable")
      /\ steps[r] = <<"fetch">>

C3_Witness ==
  \E r \in Requests :
    /\ Answered(r) /\ upstream[r].status = 503
    /\ upstream[r].body.kind = "json" /\ Matches(upstream[r].body.data)
    /\ Reply(r).status = 500

\* C4: a 2xx upstream body that parses but matches neither variant is answered
\* 500 with error "Invalid response format from Stockfish API" and a non-empty
\* list of details.
C4_SchemaViolation ==
  \A r \in Requests :
    (AnsweredJson(r) /\ ~Matches(upstream[r].body.data)) =>
      /\ Len(resp[r]) = 1
      /\ Reply(r).status = 500
      /\ Reply(r).type = "json"
      /\ DOMAIN Reply(r).body = {"success", "error", "details"}
      /\ Reply(r).body["success"] = False
      /\ Reply(r).body["error"] = Str("Invalid response format from Stockfish API")
      /\ Reply(r).body["details"][1] = "array"
      /\ Len(Reply(r).body["details"][2]) > 0

C4_Witness ==
  \E r \in Requests :
    /\ AnsweredJson(r)
    /\ upstream[r].body.data = JsonObject(MistypedBody)
    /\ Reply(r).status = 500
    /\ Len(Reply(r).body["details"][2]) > 1

\* C5 as claimed: a 2xx upstream body that cannot be parsed is answered like a
\* schema violation, 500 with error "Invalid response format from Stockfish API".
C5_MalformedAsSchemaViolation ==
  \A r \in Requests :
    (AnsweredOk(r) /\ upstream[r].body.kind = "malformed") =>
      /\ Len(resp[r]) = 1
      /\ Reply(r).status = 500
      /\ Reply(r).body["error"] = Str("Invalid response format from Stockfish API")

\* C7: a request that entered the handler gets exactly one response, JSON with
\* status 200 or 500, and none before the handler returns; when the fetch itself
\* fails the response is 500 with the failure's message, or "Unknown error
\* occurred" when what was thrown is not an Error.
C7_EveryFailureAnswered ==
  \A r \in Requests :
    ran[r] =>
      /\ ~Done(r) => (pc[r] = "fetching" /\ resp[r] = <<>>)
      /\ Done(r) =>
           /\ Len(resp[r]) = 1
           /\ Reply(r).type = "json"
           /\ Reply(r).status \in {200, 500}
           /\ "success" \in DOMAIN Reply(r).body
           /\ upstream[r].kind = "reject" =>
                /\ Reply(r).status = 500
                /\ DOMAIN Reply(r).body = {"success", "error"}
                /\ Reply(r).body["success"] = False
                /\ Reply(r).body["error"] =
                     IF upstream[r].error.isError
                     THEN Str(upstream[r].error.message)
                     ELSE Str("Unknown error occurred")

C7_Witness ==
  \E r \in Requests :
    /\ Done(r) /\ ran[r] /\ upstream[r].kind = "reject"
    /\ ~upstream[r].error.isError
    /\ Reply(r).body["error"] = Str("Unknown error occurred")

\* C8: the URL fetched is the endpoint, then ?fen= and the URL-encoded fen of the
\* request, then &depth= and the depth of the request as it is, or 10 when the
\* request has none; the encoded fen holds no character that ends a parameter.
C8_UpstreamUrl ==
  \A r \in Requests :
    Calls(r) > 0 =>
      LET q == req[r].query
          d == IF "depth" \in DOMAIN q THEN q["depth"] ELSE <<"1", "0">>
          e == encodeURIComponent(q["fen"])
      IN  /\ url[r] = Endpoint \o <<"?", "f", "e", "n", "=">> \o e
                        \o <<"&", "d", "e", "p", "t", "h", "=">> \o d
          /\ \A i \in 1..Len(e) : e[i] \notin {"&", "=", "?", "/", " ", "#"}
          /\ Len(q["fen"]) <= Len(e)

C8_Witness ==
  \E r \in Requests :
    /\ Calls(r) > 0
    /\ "depth" \notin DOMAIN req[r].query
    /\ req[r].query["fen"] = <<"a", "/">>
    /\ SubSeq(url[r], Len(url[r]) - 12, Len(url[r]))
         = <<"a", "%", "2", "F", "&", "d", "e", "p", "t", "h", "=", "1", "0">>

\* C9 as claimed: the URL fetched holds the fen parameter, fen= and the
\* URL-encoded fen of the request, exactly once (stated for a fen that is not
\* empty: the empty text occurs everywhere).
C9_FenExactlyOnce ==
  \A r \in Requests :
    (Calls(r) > 0 /\ req[r].query["fen"] # <<>>) =>
      Occurrences(<<"f", "e", "n", "=">> \o encodeURIComponent(req[r].query["fen"]), url[r]) = 1

====
